---- MODULE Spec2Model ----
(***************************************************************************)
(* A model of toc_generator.py: the TableOfContents class.  Strings are    *)
(* sequences of one-character strings, so that counting, replacing,        *)
(* stripping, slugifying and percent-quoting are computed character by     *)
(* character as the Python code computes them.                             *)
(*                                                                         *)
(* Two specifications share the module:                                    *)
(*   Spec     the object, the file system and one call at a time of        *)
(*            markdown / save_to, stepped row by row;                      *)
(*   SpecRow  find_headers' test, generate_item and slugify applied to     *)
(*            every row over a small alphabet.                             *)
(***************************************************************************)
EXTENDS Naturals, Sequences, FiniteSets

\* ------------------------------------------------------------------ bounds
\* Longest row / text enumerated by SpecRow.
MaxLen == 4
\* Most rows the environment puts into the files of the model, all files
\* together (Spec).
MaxRows == 3
\* Longest source list given to the constructor (Spec).
MaxSources == 2
\* header_levels is drawn from 1..MaxLevels.
MaxLevels == 2

\* ------------------------------------------------------- program constants
SPACES_INDENTATION == 4

\* -------------------------------------------------------------- characters
NL == "\n"
HASH == "#"
\* str.isspace() / the regex class \s, within the characters of the model.
Whitespace == {" ", NL}
\* The uppercase letters of the model.
Upper == {"A", "B", "D", "T"}
\* The regex class \w within the characters of the model.
WordChars ==
  Upper \cup {"a", "b", "c", "t", "w", "v", "0", "1", "2", "3", "5", "8", "9", "d", "_"}

\* One character of str.lower().
LowerChar(c) ==
  CASE c = "A" -> "a"
    [] c = "B" -> "b"
    [] c = "D" -> "d"
    [] c = "T" -> "t"
    [] OTHER -> c

\* ------------------------------------------------------- string primitives
\* str.startswith(c) for a one-character prefix.
StartsWith(s, c) == Len(s) > 0 /\ s[1] = c

\* str.count(c) for a one-character needle.
RECURSIVE Count(_, _)
Count(s, c) ==
  IF s = <<>> THEN 0
  ELSE (IF Head(s) = c THEN 1 ELSE 0) + Count(Tail(s), c)

\* str.replace(c, "") for a one-character needle.
Remove(s, c) == SelectSeq(s, LAMBDA x : x # c)

\* str.strip(chars): drop the leading and the trailing characters in cs.
Strip(s, cs) ==
  LET keep == {i \in DOMAIN s : s[i] \notin cs}
  IN  IF keep = {} THEN <<>>
      ELSE LET lo == CHOOSE i \in keep : \A j \in keep : i <= j
               hi == CHOOSE i \in keep : \A j \in keep : i >= j
           IN  SubSeq(s, lo, hi)

\* str.lower().
Lower(s) == [i \in DOMAIN s |-> LowerChar(s[i])]

\* " " * n.
Spaces(n) == [i \in 1..n |-> " "]

\* re.sub(r"[^\w\s-]", "", s): drop what is no word character, whitespace
\* or hyphen.
SubInvalid(s) ==
  SelectSeq(s, LAMBDA x : x \in WordChars \cup Whitespace \cup {"-"})

\* The rest of s after its leading run of hyphens and whitespace.
RECURSIVE DropRun(_)
DropRun(s) ==
  IF s # <<>> /\ Head(s) \in Whitespace \cup {"-"} THEN DropRun(Tail(s))
  ELSE s

\* re.sub(r"[-\s]+", "-", s): every maximal run of hyphens and whitespace
\* becomes one hyphen.
RECURSIVE SubRuns(_)
SubRuns(s) ==
  IF s = <<>> THEN <<>>
  ELSE IF Head(s) \in Whitespace \cup {"-"}
       THEN <<"-">> \o SubRuns(DropRun(Tail(s)))
       ELSE <<Head(s)>> \o SubRuns(Tail(s))

\* slugify with the strip done before the runs are joined.
slugify_StripFirst(text) ==
  SubRuns(Strip(SubInvalid(Lower(text)), {"-", "_"}))

\* TableOfContents.slugify.
slugify(text) == Strip(SubRuns(SubInvalid(Lower(text))), {"-", "_"})

\* urllib.parse.quote of one character: letters, digits and "_.-~/" are
\* kept, anything else becomes %XX.
QuoteChar(c) ==
  CASE c = " " -> <<"%", "2", "0">>
    [] c = HASH -> <<"%", "2", "3">>
    [] c = "!" -> <<"%", "2", "1">>
    [] c = "%" -> <<"%", "2", "5">>
    [] c = "(" -> <<"%", "2", "8">>
    [] c = ")" -> <<"%", "2", "9">>
    [] c = "[" -> <<"%", "5", "B">>
    [] c = "]" -> <<"%", "5", "D">>
    [] c = NL -> <<"%", "0", "A">>
    [] OTHER -> <<c>>

\* urllib.parse.quote.
RECURSIVE Quote(_)
Quote(s) == IF s = <<>> THEN <<>> ELSE QuoteChar(Head(s)) \o Quote(Tail(s))

\* Whether file.relative_to(dir) succeeds: file lies under dir.
IsUnder(file, dir) ==
  /\ Len(file) > Len(dir) + 1
  /\ SubSeq(file, 1, Len(dir)) = dir
  /\ file[Len(dir) + 1] = "/"

\* TableOfContents.get_relative_link, where relative_to succeeds.
get_relative_link(file, dir) ==
  Quote(SubSeq(file, Len(dir) + 2, Len(file)))

\* The test of find_headers with < in place of <=.
IsHeader_Below(row, levels) ==
  StartsWith(row, HASH) /\ Count(row, HASH) < levels

\* The test of find_headers on one row.
IsHeader(row, levels) == StartsWith(row, HASH) /\ Count(row, HASH) <= levels

\* generate_item's indentation_level.
IndentationLevel(header) == Count(header, HASH) - 1

\* generate_item's header_text.
HeaderText(header) == Strip(Remove(header, HASH), Whitespace)

\* TableOfContents.generate_item(header): the bare link form.
generate_item(header) ==
  Spaces(SPACES_INDENTATION * IndentationLevel(header))
    \o <<"-", " ", "[">> \o HeaderText(header) \o <<"]", "(">>
    \o <<HASH>> \o slugify(HeaderText(header)) \o <<")", NL>>

\* TableOfContents.generate_item(header, file): the file-qualified form.
generate_item_file(header, file, dir) ==
  Spaces(SPACES_INDENTATION * IndentationLevel(header))
    \o <<"-", " ", "[">> \o HeaderText(header) \o <<"]", "(">>
    \o <<".", "/">> \o get_relative_link(file, dir)
    \o <<HASH>> \o slugify(HeaderText(header)) \o <<")", NL>>

\* SplitLines: the rows a text file yields when iterated, each with its line end.
RECURSIVE SplitLines(_)
SplitLines(s) ==
  IF s = <<>> THEN <<>>
  ELSE LET ends == {i \in DOMAIN s : s[i] = NL}
       IN  IF ends = {} THEN <<s>>
           ELSE LET e == CHOOSE i \in ends : \A j \in ends : i <= j
                IN  <<SubSeq(s, 1, e)>> \o SplitLines(SubSeq(s, e + 1, Len(s)))

\* ------------------------------------------------------------------ inputs
\* The characters rows and texts are drawn from in SpecRow.
Alphabet == {HASH, "A", " ", "-", "_", "!", NL}

\* Every string over cs of length at most n.
RECURSIVE Strings(_, _)
Strings(cs, n) ==
  IF n = 0 THEN {<<>>}
  ELSE Strings(cs, n - 1)
         \cup {Append(t, c) : t \in Strings(cs, n - 1), c \in cs}

\* The working directories and the paths of the model.
CwdW == <<"/", "w">>
CwdV == <<"/", "v">>
PA == <<"/", "w", "/", "a">>
PB == <<"/", "w", "/", "b", " ", "c">>
Paths == {PA, PB}
Titles == {<<"T">>}
\* The destinations given to save_to.  One path is enough: it is a source
\* of some source lists and of others not, and it starts absent, empty or
\* with text.
Dests == {PB}

\* The rows the environment composes files from.
RowPool == {<<HASH, " ", "A", " ", "b", NL>>, <<HASH, HASH, " ", "B", NL>>}

\* Every text of at most n rows of the pool.
RECURSIVE Texts(_)
Texts(n) ==
  IF n = 0 THEN {<<>>}
  ELSE Texts(n - 1) \cup {t \o r : t \in Texts(n - 1), r \in RowPool}

\* A path's state in the file system: absent, or a file with its text.
Missing == [exists |-> FALSE, text |-> <<>>]
File(t) == [exists |-> TRUE, text |-> t]
FileStates == {Missing} \cup {File(t) : t \in Texts(MaxRows)}

\* The rows of all files together.
RECURSIVE TotalRows(_, _)
TotalRows(f, ps) ==
  IF ps = {} THEN 0
  ELSE LET p == CHOOSE q \in ps : TRUE
       IN  Len(SplitLines(f[p].text)) + TotalRows(f, ps \ {p})

\* The file systems the model starts from.
FileSystems == {f \in [Paths -> FileStates] : TotalRows(f, Paths) <= MaxRows}

\* Every source list of at most n paths.
RECURSIVE SourceLists(_)
SourceLists(n) ==
  IF n = 0 THEN {<<>>}
  ELSE SourceLists(n - 1)
         \cup {Append(l, p) : l \in SourceLists(n - 1), p \in Paths}

\* ------------------------------------------------------------------- state
\* emitted, lastOut and destBefore are history variables: no action reads
\* them to decide what the program does.
VARIABLES
  source, title, header_levels,  \* the object's attributes
  cwd, fs,                       \* Path.cwd() and the file system
  pc, op, dest, error,           \* the call in progress and how it ended
  fi, ri,                        \* generate_list: file index, rows read of it
  opened,                        \* indices of the sources whose file is open
  content,                       \* generate_list's local string
  result,                        \* <<>> or <<the string generate_list returned>>
  emitted,                       \* the <<file index, row index>> of each item so far
  lastOut,                       \* <<>> or <<the last string returned since a source changed>>
  destBefore,                    \* the destination's state when save_to was called
  prow, plevels, pstage, pitems, pslug   \* SpecRow's row, levels, stage and outputs

objVars == <<source, title, header_levels, cwd>>
callVars == <<pc, op, dest, error, fi, ri, opened, content, result, emitted, destBefore>>
rowVars == <<prow, plevels, pstage, pitems, pslug>>
vars == <<objVars, fs, callVars, lastOut, rowVars>>

\* ----------------------------------------------------------------- SpecRow
RowOff ==
  /\ prow = <<>> /\ plevels = 1 /\ pstage = "off" /\ pitems = <<>> /\ pslug = <<>>

ObjOff ==
  /\ source = <<>> /\ title = <<"T">> /\ header_levels = 1 /\ cwd = CwdW
  /\ fs = [p \in Paths |-> Missing]
  /\ pc = "off" /\ op = "none" /\ dest = <<>> /\ error = "none"
  /\ fi = 0 /\ ri = 0 /\ opened = {} /\ content = <<>> /\ result = <<>>
  /\ emitted = <<>> /\ lastOut = <<>> /\ destBefore = Missing

InitRow ==
  /\ ObjOff
  /\ prow \in Strings(Alphabet, MaxLen)
  /\ plevels \in 1..MaxLevels
  /\ pstage = "in" /\ pitems = <<>> /\ pslug = <<>>

\* find_headers on a one-row file: the row is yielded or passed over.
FindRow ==
  /\ pstage = "in"
  /\ pstage' = IF IsHeader(prow, plevels) THEN "yielded" ELSE "listed"
  /\ UNCHANGED <<objVars, fs, callVars, lastOut, prow, plevels, pitems, pslug>>

\* generate_item on the yielded row.
ItemRow ==
  /\ pstage = "yielded"
  /\ pitems' = Append(pitems, generate_item(prow))
  /\ pstage' = "listed"
  /\ UNCHANGED <<objVars, fs, callVars, lastOut, prow, plevels, pslug>>

\* slugify on the row taken as a text.
SlugRow ==
  /\ pstage = "listed"
  /\ pslug' = <<slugify(prow)>>
  /\ pstage' = "slug"
  /\ UNCHANGED <<objVars, fs, callVars, lastOut, prow, plevels, pitems>>

\* slugify on its own output.
SlugAgain ==
  /\ pstage = "slug"
  /\ pslug' = Append(pslug, slugify(pslug[1]))
  /\ pstage' = "reslug"
  /\ UNCHANGED <<objVars, fs, callVars, lastOut, prow, plevels, pitems>>

NextRow == FindRow \/ ItemRow \/ SlugRow \/ SlugAgain

SpecRow == InitRow /\ [][NextRow]_vars

\* -------------------------------------------------------------------- Spec
\* TableOfContents.__init__ with a list of paths, in some working directory
\* and over some file system.
Init ==
  /\ RowOff
  /\ source \in SourceLists(MaxSources)
  /\ title \in Titles
  /\ header_levels \in 1..MaxLevels
  /\ cwd \in {CwdW, CwdV}
  /\ fs \in FileSystems
  /\ pc = "idle" /\ op = "none" /\ dest = <<>> /\ error = "none"
  /\ fi = 0 /\ ri = 0 /\ opened = {} /\ content = <<>> /\ result = <<>>
  /\ emitted = <<>> /\ lastOut = <<>> /\ destBefore = Missing

\* has_multiple_sources decided by the file at hand, not by the list.
has_multiple_sources_PerFile == fi > 1

\* TableOfContents.has_multiple_sources.
has_multiple_sources == Len(source) > 1

\* The rows of the source file, last row first.
CurRows_Reversed ==
  LET rows == SplitLines(fs[source[fi]].text)
  IN  [j \in DOMAIN rows |-> rows[Len(rows) + 1 - j]]

\* The rows of the source file being read.
CurRows == SplitLines(fs[source[fi]].text)

\* The first line of generate_list: content = f"## {self.title}\n".
TitleLine == <<HASH, HASH, " ">> \o title \o <<NL>>

\* The property markdown: a call of generate_list begins.
markdown ==
  /\ pc = "idle"
  /\ pc' = "files" /\ op' = "markdown"
  /\ content' = TitleLine
  /\ fi' = 0 /\ ri' = 0 /\ emitted' = <<>> /\ result' = <<>>
  /\ UNCHANGED <<objVars, fs, dest, error, opened, lastOut, destBefore, rowVars>>

\* save_to opening the destination for writing before it renders.
save_to_OpenFirst ==
  /\ pc = "idle"
  /\ \E d \in Dests :
       /\ dest' = d
       /\ destBefore' = fs[d]
       /\ fs' = [fs EXCEPT ![d] = File(<<>>)]
  /\ pc' = "files" /\ op' = "save_to"
  /\ content' = TitleLine
  /\ fi' = 0 /\ ri' = 0 /\ emitted' = <<>> /\ result' = <<>>
  /\ UNCHANGED <<objVars, error, opened, lastOut, rowVars>>

\* save_to(destination): its argument self.markdown is evaluated first, so
\* generate_list begins and the destination is not touched yet.
save_to ==
  /\ pc = "idle"
  /\ \E d \in Dests :
       /\ dest' = d
       /\ destBefore' = fs[d]
  /\ pc' = "files" /\ op' = "save_to"
  /\ content' = TitleLine
  /\ fi' = 0 /\ ri' = 0 /\ emitted' = <<>> /\ result' = <<>>
  /\ UNCHANGED <<objVars, fs, error, opened, lastOut, rowVars>>

\* OpenSource passing over a file that does not exist.
OpenSource_SkipMissing ==
  /\ pc = "files" /\ fi < Len(source)
  /\ fi' = fi + 1 /\ ri' = 0
  /\ IF fs[source[fi + 1]].exists
       THEN /\ opened' = opened \cup {fi + 1}
            /\ pc' = "rows"
       ELSE /\ opened' = opened
            /\ pc' = "files"
  /\ UNCHANGED <<objVars, fs, op, dest, error, content, result, emitted,
                 lastOut, destBefore, rowVars>>

\* for file in self.source: find_headers(file) runs to file.open(), which
\* raises when the file does not exist.
OpenSource ==
  /\ pc = "files" /\ fi < Len(source)
  /\ fi' = fi + 1 /\ ri' = 0
  /\ IF fs[source[fi + 1]].exists
       THEN /\ opened' = opened \cup {fi + 1}
            /\ pc' = "rows"
            /\ error' = error
       ELSE /\ opened' = opened
            /\ pc' = "raised"
            /\ error' = "FileNotFoundError"
  /\ UNCHANGED <<objVars, fs, op, dest, content, result, emitted, lastOut,
                 destBefore, rowVars>>

\* for row in f: one row is read; a header within header_levels is yielded
\* to generate_list, any other row is passed over.
ReadRow ==
  /\ pc = "rows" /\ ri < Len(CurRows)
  /\ ri' = ri + 1
  /\ pc' = IF IsHeader(CurRows[ri + 1], header_levels) THEN "item" ELSE "rows"
  /\ UNCHANGED <<objVars, fs, op, dest, error, fi, opened, content, result,
                 emitted, lastOut, destBefore, rowVars>>

\* Reading a row fails (the bytes do not decode, the device fails): the
\* with block releases the file and the error leaves generate_list.
ReadFail ==
  /\ pc = "rows"
  /\ opened' = opened \ {fi}
  /\ pc' = "raised" /\ error' = "UnicodeDecodeError"
  /\ UNCHANGED <<objVars, fs, op, dest, fi, ri, content, result, emitted,
                 lastOut, destBefore, rowVars>>

\* The generator ending without releasing its file.
CloseSource_Leak ==
  /\ pc = "rows" /\ ri = Len(CurRows)
  /\ pc' = "files"
  /\ UNCHANGED <<objVars, fs, op, dest, error, fi, ri, opened, content,
                 result, emitted, lastOut, destBefore, rowVars>>

\* The file is exhausted: the with block releases it and the generator ends.
CloseSource ==
  /\ pc = "rows" /\ ri = Len(CurRows)
  /\ opened' = opened \ {fi}
  /\ pc' = "files"
  /\ UNCHANGED <<objVars, fs, op, dest, error, fi, ri, content, result,
                 emitted, lastOut, destBefore, rowVars>>

\* The body of generate_list's inner loop: content += generate_item(...).
\* With several sources relative_to raises ValueError for a file outside
\* the working directory; the generator is then left suspended, its file open.
EmitItem ==
  /\ pc = "item"
  /\ IF has_multiple_sources /\ ~IsUnder(source[fi], cwd)
       THEN /\ pc' = "raised" /\ error' = "ValueError"
            /\ UNCHANGED <<content, emitted>>
       ELSE /\ content' = content \o
                 (IF has_multiple_sources
                    THEN generate_item_file(CurRows[ri], source[fi], cwd)
                    ELSE generate_item(CurRows[ri]))
            /\ emitted' = Append(emitted, <<fi, ri>>)
            /\ pc' = "rows" /\ error' = error
  /\ UNCHANGED <<objVars, fs, op, dest, fi, ri, opened, result, lastOut,
                 destBefore, rowVars>>

\* generate_list having consumed self.source while it iterated.
ReturnList_Consume ==
  /\ pc = "files" /\ fi = Len(source)
  /\ result' = <<content>>
  /\ source' = <<>> /\ fi' = 0
  /\ pc' = IF op = "markdown" THEN "returned" ELSE "write"
  /\ UNCHANGED <<title, header_levels, cwd, fs, op, dest, error, ri, opened,
                 content, emitted, lastOut, destBefore, rowVars>>

\* return content: generate_list returns; markdown hands the string to its
\* caller, save_to goes on to write it.
ReturnList ==
  /\ pc = "files" /\ fi = Len(source)
  /\ result' = <<content>>
  /\ pc' = IF op = "markdown" THEN "returned" ELSE "write"
  /\ UNCHANGED <<objVars, fs, op, dest, error, fi, ri, opened, content,
                 emitted, lastOut, destBefore, rowVars>>

\* write_text appending to what the destination holds.
WriteDest_Append ==
  /\ pc = "write"
  /\ fs' = [fs EXCEPT ![dest] = File(fs[dest].text \o result[1])]
  /\ pc' = "saved"
  /\ lastOut' = IF \E i \in DOMAIN source : source[i] = dest THEN <<>> ELSE lastOut
  /\ UNCHANGED <<objVars, op, dest, error, fi, ri, opened, content, result,
                 emitted, destBefore, rowVars>>

\* Path(destination).write_text(...): the destination is opened for writing
\* and holds the string afterwards.
WriteDest ==
  /\ pc = "write"
  /\ fs' = [fs EXCEPT ![dest] = File(result[1])]
  /\ pc' = "saved"
  /\ lastOut' = IF \E i \in DOMAIN source : source[i] = dest THEN <<>> ELSE lastOut
  /\ UNCHANGED <<objVars, op, dest, error, fi, ri, opened, content, result,
                 emitted, destBefore, rowVars>>

\* The destination cannot be opened for writing: the error leaves save_to.
WriteFail ==
  /\ pc = "write"
  /\ pc' = "raised" /\ error' = "PermissionError"
  /\ UNCHANGED <<objVars, fs, op, dest, fi, ri, opened, content, result,
                 emitted, lastOut, destBefore, rowVars>>

\* The suspended generator of a call that raised is finalized: its with
\* block releases the file.
Finalize ==
  /\ pc = "raised" /\ opened # {}
  /\ opened' = {}
  /\ UNCHANGED <<objVars, fs, pc, op, dest, error, fi, ri, content, result,
                 emitted, lastOut, destBefore, rowVars>>

\* The caller goes on after the call: its locals are gone.
Done ==
  /\ pc \in {"returned", "saved", "raised"} /\ opened = {}
  /\ pc' = "idle" /\ op' = "none" /\ dest' = <<>> /\ error' = "none"
  /\ fi' = 0 /\ ri' = 0 /\ content' = <<>> /\ result' = <<>> /\ emitted' = <<>>
  /\ destBefore' = Missing
  /\ lastOut' = IF pc = "returned" \/ (pc = "saved" /\ \A i \in DOMAIN source : source[i] # dest)
                  THEN result
                  ELSE lastOut
  /\ UNCHANGED <<objVars, fs, opened, rowVars>>

\* The environment rewrites, creates or deletes a file between two calls;
\* what it leaves behind is a file system the model could have started from.
Edit ==
  /\ pc = "idle"
  /\ \E p \in Paths, c \in FileStates :
       /\ c # fs[p]
       /\ fs' = [fs EXCEPT ![p] = c]
       /\ fs' \in FileSystems
  /\ lastOut' = <<>>
  /\ UNCHANGED <<objVars, callVars, rowVars>>

Next ==
  \/ markdown \/ save_to
  \/ OpenSource \/ ReadRow \/ ReadFail \/ CloseSource \/ EmitItem \/ ReturnList
  \/ WriteDest \/ WriteFail \/ Finalize \/ Done
  \/ Edit

Spec == Init /\ [][Next]_vars

\* ------------------------------------------------ vocabulary of the claims
\* The number of characters c that s begins with.
RECURSIVE LeadingCount(_, _)
LeadingCount(s, c) ==
  IF s # <<>> /\ Head(s) = c THEN 1 + LeadingCount(Tail(s), c) ELSE 0

\* The number of marker characters anywhere in the row.
Markers(row) == Cardinality({k \in DOMAIN row : row[k] = HASH})

\* The row starts with a marker and holds at most levels markers in all.
Qualifies(row, levels) == row # <<>> /\ row[1] = HASH /\ Markers(row) <= levels

\* The sequences of a sequence of sequences, joined.
RECURSIVE Concat(_)
Concat(ss) == IF ss = <<>> THEN <<>> ELSE Head(ss) \o Concat(Tail(ss))

\* The rows of the i-th source.
RowsOf(i) == SplitLines(fs[source[i]].text)

\* The <<source index, row index>> of every qualifying heading.
Headings ==
  UNION {LET rows == RowsOf(i)
         IN  {<<i, j>> : j \in {r \in DOMAIN rows :
                                  Qualifies(rows[r], header_levels)}} :
         i \in DOMAIN source}

\* The list item of a heading row of the i-th source, in the link form the
\* number of sources calls for.
ItemOf(i, row) ==
  IF Len(source) > 1
    THEN generate_item_file(row, source[i], cwd)
    ELSE generate_item(row)

\* The table of the sources as they are now: the title line, then the item
\* of every qualifying heading, source by source and row by row.
TableNow ==
  TitleLine \o
    Concat([i \in DOMAIN source |->
      LET rows == RowsOf(i)
      IN  Concat([j \in DOMAIN rows |->
            IF Qualifies(rows[j], header_levels) THEN ItemOf(i, rows[j]) ELSE <<>>])])

\* h1 comes before h2: an earlier source, or the same source and an earlier row.
Before(h1, h2) == h1[1] < h2[1] \/ (h1[1] = h2[1] /\ h1[2] < h2[2])

\* The list items of content: its lines after the title line.
ItemLines == Tail(SplitLines(content))

\* The link target of a list item: what stands between "](" and the final ")".
LinkTarget(line) ==
  LET at == CHOOSE k \in 1..(Len(line) - 1) :
              /\ line[k] = "]" /\ line[k + 1] = "("
              /\ \A m \in 1..(k - 1) : ~(line[m] = "]" /\ line[m + 1] = "(")
  IN  SubSeq(line, at + 2, Len(line) - 2)

\* The target is "#<anchor>" and names no path.
IsBare(target) ==
  /\ target # <<>> /\ target[1] = HASH
  /\ \A k \in DOMAIN target : target[k] \notin {"/", "."}

\* The target is "./<quoted path of file relative to the working directory>#<anchor>".
IsQualified(target, file) ==
  LET pre == <<".", "/">> \o Quote(SubSeq(file, Len(cwd) + 2, Len(file))) \o <<HASH>>
  IN  /\ Len(target) >= Len(pre)
      /\ SubSeq(target, 1, Len(pre)) = pre
      /\ \A k \in (Len(pre) + 1)..Len(target) : target[k] \notin {"/", ".", HASH}

\* The states of a call in which generate_list runs or has just returned.
Listing == {"files", "rows", "item", "returned", "write"}

\* ------------------------------------------------------------------ claims
\* C1: find_headers yields a row if and only if the row starts with '#' and
\* holds at most header_levels '#' characters in all; any other row gets no
\* list item at all, and a yielded row gets exactly one.
C1_HeaderIffStartsAndCount ==
  /\ pstage = "yielded" => Qualifies(prow, plevels)
  /\ pstage \in {"listed", "slug", "reslug"} =>
       /\ Len(pitems) = (IF Qualifies(prow, plevels) THEN 1 ELSE 0)

\* A row that starts with one marker, holds more markers than header_levels
\* further on, and was passed over without an item.
C1_Witness ==
  /\ pstage = "listed" /\ pitems = <<>>
  /\ LeadingCount(prow, HASH) = 1 /\ LeadingCount(prow, HASH) <= plevels
  /\ Markers(prow) > plevels

\* C4: every list item is indented by SPACES_INDENTATION spaces for each
\* level below the first, the level being the number of consecutive markers
\* the row starts with.
C4_IndentByLeadingRun ==
  \A k \in DOMAIN pitems :
    LeadingCount(pitems[k], " ")
      = SPACES_INDENTATION * (LeadingCount(prow, HASH) - 1)

\* C5: slugify is idempotent: slugify(slugify(x)) = slugify(x).
C5_SlugifyIdempotent == pstage = "reslug" => pslug[2] = pslug[1]

\* A text that slugify changes by lowercasing, by dropping a character and
\* by joining words with a hyphen, slugified twice.
C5_Witness ==
  /\ pstage = "reslug"
  /\ \E k \in DOMAIN prow : prow[k] = "A"
  /\ \E k \in DOMAIN prow : prow[k] = "!"
  /\ \E k \in DOMAIN pslug[1] : pslug[1][k] = "-"
  /\ Len(pslug[1]) < Len(prow)

\* C2: the link form is fixed by the number of sources: with one source
\* every item links to the bare '#<anchor>', with several every item links
\* to './<relative path>#<anchor>' of its own source; the forms never mix.
C2_LinkFormBySourceCount ==
  pc \in Listing =>
    LET items == ItemLines
    IN  /\ Len(items) = Len(emitted)
        /\ \A k \in DOMAIN items :
             IF Len(source) = 1
               THEN IsBare(LinkTarget(items[k]))
               ELSE /\ Len(source) > 1
                    /\ IsQualified(LinkTarget(items[k]), source[emitted[k][1]])

\* A table of two different sources returned with an item of each, one of
\* them under a path that needs quoting.
C2_Witness ==
  /\ pc = "returned" /\ source = <<PA, PB>>
  /\ \E k \in DOMAIN emitted : emitted[k][1] = 1
  /\ \E k \in DOMAIN emitted : emitted[k][1] = 2

\* C3: the output is the title line followed by exactly one item per
\* qualifying heading, in the order of (source index, row index); no heading
\* is dropped, repeated or moved.
C3_TitleThenItemsInOrder ==
  /\ pc \in Listing =>
       \A k1, k2 \in DOMAIN emitted :
         k1 < k2 => Before(emitted[k1], emitted[k2])
  /\ pc \in {"returned", "write"} =>
       LET ls == SplitLines(result[1])
           hs == Headings
           rows == [i \in DOMAIN source |-> RowsOf(i)]
       IN  /\ ls # <<>> /\ ls[1] = TitleLine
           /\ Len(ls) = 1 + Len(emitted)
           /\ {emitted[k] : k \in DOMAIN emitted} = hs
           /\ \A k \in DOMAIN emitted :
                ls[k + 1] = ItemOf(emitted[k][1], rows[emitted[k][1]][emitted[k][2]])

\* A table returned with a deeper heading listed before a shallower one of
\* the same source, a later source's item after them, and a row left out.
C3_Witness ==
  /\ pc = "returned" /\ Len(emitted) >= 3
  /\ emitted[1][1] = 1 /\ emitted[2][1] = 1 /\ emitted[3][1] = 2
  /\ Markers(RowsOf(1)[emitted[1][2]]) > Markers(RowsOf(1)[emitted[2][2]])

\* C6: when save_to has completed, the destination holds exactly the string
\* generate_list returned in that call, whatever it held before and also
\* when it is one of the sources.
C6_DestinationHoldsRender ==
  pc = "saved" =>
    /\ result # <<>>
    /\ fs[dest] = File(result[1])
    /\ result[1] = content

\* save_to completed on a destination that is one of the sources, held
\* other text before, and contributed an item.
C6_Witness ==
  /\ pc = "saved"
  /\ destBefore.exists /\ destBefore.text # <<>>
  /\ destBefore.text # result[1]
  /\ \E k \in DOMAIN emitted : source[emitted[k][1]] = dest

\* C7: a source that cannot be opened or read fails the whole call: nothing
\* is returned, the source is not skipped, and the items of earlier sources
\* are not delivered.
C7_UnreadableSourceFailsCall ==
  /\ pc \in Listing => \A i \in 1..fi : fs[source[i]].exists
  /\ pc \in {"returned", "write"} =>
       \A i \in DOMAIN source : fs[source[i]].exists
  /\ pc = "raised" /\ error # "PermissionError" => result = <<>>

\* The second source is missing after the first gave an item: the call
\* raised and returned nothing.
C7_Witness ==
  /\ pc = "raised" /\ error = "FileNotFoundError"
  /\ fi = 2 /\ emitted # <<>> /\ result = <<>>

\* C9: sources are read one after another: at most one is open, the next is
\* opened only after the current one was read to its end and released, and
\* none is open when the call has returned or a read failure has left it.
C9_OneSourceOpenAtATime ==
  /\ Cardinality(opened) <= 1
  /\ pc \in {"rows", "item"} => opened = {fi}
  /\ pc = "files" => opened = {} /\ (fi > 0 => ri = Len(RowsOf(fi)))
  /\ pc \in {"idle", "returned", "write", "saved"} => opened = {}
  /\ pc = "raised" /\ error \in {"FileNotFoundError", "UnicodeDecodeError"} =>
       opened = {}

\* Reading the second source failed after the first was read to its end.
C9_Witness ==
  /\ pc = "raised" /\ error = "UnicodeDecodeError"
  /\ fi = 2 /\ ri >= 1 /\ opened = {} /\ Len(RowsOf(1)) >= 1

\* C10: save_to renders before it opens the destination: while the list is
\* generated, and when generating it failed, the destination is as it was
\* when save_to was called (its text kept, or still absent).
C10_FailedRenderLeavesDestination ==
  op = "save_to" /\ pc \in {"files", "rows", "item", "write", "raised"} =>
    fs[dest] = destBefore

\* save_to failed on a missing source while the destination held text.
C10_Witness ==
  /\ op = "save_to" /\ pc = "raised" /\ error = "FileNotFoundError"
  /\ destBefore.exists /\ destBefore.text # <<>>

\* The same failure with an absent destination, which stays absent.
C10_WitnessAbsent ==
  /\ op = "save_to" /\ pc = "raised" /\ error = "UnicodeDecodeError"
  /\ ~destBefore.exists /\ ~fs[dest].exists

====
